---- MODULE Spec2Model ----
(***************************************************************************)
(* HeatMapEngine (src/Heatmap_engine.js): ingestion of accelerometer       *)
(* samples, floor detection, the trajectory log and the derived views.     *)
(*                                                                         *)
(* Units.  Accelerations are integers counting tenths of a m/s^2 (3.0      *)
(* m/s^2 is 30), timestamps are integers counting milliseconds.  A         *)
(* JavaScript value is a record [k, v]: k = "num" with the number in v,    *)
(* k = "NaN", or k = "undefined" (a missing argument).  Real results that  *)
(* are not integers are kept exact: [k |-> "sqrt", v, d] is sqrt(v)/d and  *)
(* [k |-> "rat", n, d] is n/d.                                             *)
(***************************************************************************)
EXTENDS Integers, Sequences, FiniteSets, TLC

VARIABLES data, calls, last, ret

vars == <<data, calls, last, ret>>

\* ------------------------------------------------------------------ bounds

\* addPoint calls per session (between two resets)
MaxPoints == 3
\* the accessors are called on sessions of at most this many points
MaxQueried == 1

\* ----------------------------------------------------- JavaScript numbers

Num(n) == [k |-> "num", v |-> n]
NaN == [k |-> "NaN", v |-> 0]
Undef == [k |-> "undefined", v |-> 0]
Null == [k |-> "null", v |-> 0]

IsNum(a) == a.k = "num"

\* ToNumber: undefined converts to NaN in arithmetic and comparisons
ToNumber(a) == IF a.k = "num" THEN a ELSE NaN

\* a || 0 : undefined, NaN and 0 are falsy
OrZero(a) == IF a.k = "num" /\ a.v # 0 THEN a ELSE Num(0)

AbsInt(n) == IF n < 0 THEN -n ELSE n

\* Math.abs
MathAbs(a) == IF IsNum(ToNumber(a)) THEN Num(AbsInt(a.v)) ELSE NaN

\* a < b and a > b : false as soon as one side is NaN
JSLt(a, b) == IsNum(ToNumber(a)) /\ IsNum(ToNumber(b)) /\ a.v < b.v
JSGt(a, b) == IsNum(ToNumber(a)) /\ IsNum(ToNumber(b)) /\ a.v > b.v

\* a !== b on numbers: NaN differs from everything, itself included
StrictNeq(a, b) == IF IsNum(a) /\ IsNum(b) THEN a.v # b.v ELSE TRUE

JSAdd(a, b) == IF IsNum(ToNumber(a)) /\ IsNum(ToNumber(b)) THEN Num(a.v + b.v) ELSE NaN
JSSub(a, b) == IF IsNum(ToNumber(a)) /\ IsNum(ToNumber(b)) THEN Num(a.v - b.v) ELSE NaN

\* Math.min / Math.max of two arguments: NaN if either is NaN
MathMin(a, b) ==
    IF IsNum(ToNumber(a)) /\ IsNum(ToNumber(b))
    THEN (IF a.v <= b.v THEN a ELSE b)
    ELSE NaN
MathMax(a, b) ==
    IF IsNum(ToNumber(a)) /\ IsNum(ToNumber(b))
    THEN (IF a.v >= b.v THEN a ELSE b)
    ELSE NaN

\* Math.round(n / d) for d > 0: the nearest integer, halves towards +infinity
RoundHalfUp(n, d) == (2 * n + d) \div (2 * d)

\* --------------------------------------------------------------- constants

FLOOR_HEIGHT == 3
\* 0.5 m/s^2, in tenths
VERTICAL_THRESHOLD == 5
FLOOR_TRANSITION_TIME == 500
\* highest floor (the literal 12 of detectFloor and getVerticalHeatmap)
TopFloor == 12

\* ------------------------------------------------------------- constructor

EmptyData ==
    [ points       |-> <<>>,
      floors       |-> <<>>,
      duration     |-> Num(0),
      startTime    |-> Null,
      endTime      |-> Null,
      currentFloor |-> Num(0),
      trajectory   |-> <<>> ]

\* ------------------------------------------------------------------- reset

\* reset that leaves the car where it was
reset_KeepsFloor(d) ==
    [ points       |-> <<>>,
      floors       |-> <<>>,
      duration     |-> Num(0),
      startTime    |-> Null,
      endTime      |-> Null,
      currentFloor |-> d.currentFloor,
      trajectory   |-> <<>> ]

\* the session after reset(): the object literal assigned to this.data
reset(d) ==
    [ points       |-> <<>>,
      floors       |-> <<>>,
      duration     |-> Num(0),
      startTime    |-> Null,
      endTime      |-> Null,
      currentFloor |-> Num(0),
      trajectory   |-> <<>> ]

\* ------------------------------------------------------------- detectFloor

\* floorChange computed with Math.floor in place of Math.round
floorChange_Truncated(z) ==
    IF z.k = "num"
    THEN [k |-> "num", v |-> ((IF z.v < 0 THEN -z.v ELSE z.v) * 500) \div (1000 * 10 * 3)]
    ELSE [k |-> "NaN", v |-> 0]

\* Math.round(verticalDistance / FLOOR_HEIGHT), verticalDistance being
\* Math.abs(z) * FLOOR_TRANSITION_TIME / 1000 metres (z in tenths: / 10)
floorChange(z) ==
    IF IsNum(ToNumber(z))
    THEN Num(RoundHalfUp(AbsInt(z.v) * FLOOR_TRANSITION_TIME, 1000 * 10 * FLOOR_HEIGHT))
    ELSE NaN

\* detectFloor moving one floor per sample at most
detectFloor_OneFloorPerSample(d, z) ==
    IF JSLt(MathAbs(z), Num(VERTICAL_THRESHOLD))
    THEN d.currentFloor
    ELSE IF JSGt(z, Num(0))
         THEN MathMin(JSAdd(d.currentFloor, MathMin(floorChange(z), Num(1))), Num(TopFloor))
         ELSE MathMax(JSSub(d.currentFloor, MathMin(floorChange(z), Num(1))), Num(0))

\* detectFloor without the clamp to [0, 12]
detectFloor_Unclamped(d, z) ==
    IF JSLt(MathAbs(z), Num(VERTICAL_THRESHOLD))
    THEN d.currentFloor
    ELSE IF JSGt(z, Num(0))
         THEN JSAdd(d.currentFloor, floorChange(z))
         ELSE JSSub(d.currentFloor, floorChange(z))

detectFloor(d, z) ==
    IF JSLt(MathAbs(z), Num(VERTICAL_THRESHOLD))
    THEN d.currentFloor
    ELSE IF JSGt(z, Num(0))
         THEN MathMin(JSAdd(d.currentFloor, floorChange(z)), Num(TopFloor))
         ELSE MathMax(JSSub(d.currentFloor, floorChange(z)), Num(0))

\* ---------------------------------------------------------------- addPoint

\* Math.sqrt(x*x + y*y + z*z) on the raw arguments
Magnitude(x, y, z) ==
    IF IsNum(ToNumber(x)) /\ IsNum(ToNumber(y)) /\ IsNum(ToNumber(z))
    THEN [k |-> "sqrt", v |-> x.v * x.v + y.v * y.v + z.v * z.v, d |-> 10]
    ELSE [k |-> "NaN", v |-> 0, d |-> 10]

MakePoint(x, y, z, t) ==
    [ x |-> OrZero(x), y |-> OrZero(y), z |-> OrZero(z),
      timestamp |-> t, magnitude |-> Magnitude(x, y, z) ]

\* the argument addPoint hands to detectFloor
DetectArg(x, y, z) == z

\* addPoint that logs the floor change without updating currentFloor
addPoint_StaleFloor(d, x, y, z, t) ==
    LET pushed == [d EXCEPT !.points = Append(@, MakePoint(x, y, z, t))]
        detectedFloor == detectFloor(pushed, DetectArg(x, y, z))
    IN  IF StrictNeq(detectedFloor, pushed.currentFloor)
        THEN [pushed EXCEPT
                !.trajectory = Append(@, [floor |-> detectedFloor,
                                          timestamp |-> t,
                                          duration |-> 0])]
        ELSE pushed

\* addPoint that records the sample only when the floor changes
addPoint_PushOnChange(d, x, y, z, t) ==
    LET detectedFloor == detectFloor(d, DetectArg(x, y, z))
    IN  IF StrictNeq(detectedFloor, d.currentFloor)
        THEN [d EXCEPT
                !.points = Append(@, MakePoint(x, y, z, t)),
                !.currentFloor = detectedFloor,
                !.trajectory = Append(@, [floor |-> detectedFloor,
                                          timestamp |-> t,
                                          duration |-> 0])]
        ELSE d

\* the session after addPoint(x, y, z, t)
addPoint(d, x, y, z, t) ==
    LET point == MakePoint(x, y, z, t)
        pushed == [d EXCEPT !.points = Append(@, point)]
        detectedFloor == detectFloor(pushed, DetectArg(x, y, z))
    IN  IF StrictNeq(detectedFloor, pushed.currentFloor)
        THEN [pushed EXCEPT
                !.currentFloor = detectedFloor,
                !.trajectory = Append(@, [floor |-> detectedFloor,
                                          timestamp |-> t,
                                          duration |-> 0])]
        ELSE pushed

\* ------------------------------------------------------------ getFloorName

getFloorName(floor) ==
    IF IsNum(floor) /\ floor.v = 0 THEN "Car Top (Machine Room)"
    ELSE IF IsNum(floor) /\ floor.v >= 1 /\ floor.v <= TopFloor
         THEN "Floor " \o ToString(floor.v)
         ELSE "Unknown"

\* ------------------------------------------------------ getVerticalHeatmap

\* seconds as an exact fraction: ms / 1000
Seconds(ms) == [k |-> "rat", n |-> ms, d |-> 1000]

\* the initialisation loop stopping before the top floor (i < 12)
InitialFloorVisits_StopsEarly ==
    [i \in 0..11 |->
        [ floor     |-> [k |-> "num", v |-> i],
          floorName |-> getFloorName([k |-> "num", v |-> i]),
          duration  |-> [k |-> "rat", n |-> 0, d |-> 1000],
          visits    |-> 0,
          lastVisit |-> [k |-> "null", v |-> 0] ]]

\* the loop "Initialize all floors"
InitialFloorVisits ==
    [i \in 0..TopFloor |->
        [ floor     |-> Num(i),
          floorName |-> getFloorName(Num(i)),
          duration  |-> Seconds(0),
          visits    |-> 0,
          lastVisit |-> Null ]]

\* the forEach callback setting visits instead of incrementing it
CountVisit_SetsVisits(fv, traj, index) ==
    LET visit == traj[index]
    IN  IF IsNum(visit.floor) /\ visit.floor.v \in DOMAIN fv
        THEN LET f == visit.floor.v
                 counted == [fv EXCEPT ![f].visits = 1,
                                       ![f].lastVisit = Num(visit.timestamp)]
             IN  IF index < Len(traj)
                 THEN [counted EXCEPT ![f].duration =
                          Seconds(@.n + (traj[index + 1].timestamp - visit.timestamp))]
                 ELSE counted
        ELSE fv

\* one call of the forEach callback, on trajectory[index] (1-based here)
CountVisit(fv, traj, index) ==
    LET visit == traj[index]
    IN  IF IsNum(visit.floor) /\ visit.floor.v \in DOMAIN fv
        THEN LET f == visit.floor.v
                 counted == [fv EXCEPT ![f].visits = @ + 1,
                                       ![f].lastVisit = Num(visit.timestamp)]
             IN  IF index < Len(traj)
                 THEN [counted EXCEPT ![f].duration =
                          Seconds(@.n + (traj[index + 1].timestamp - visit.timestamp))]
                 ELSE counted
        ELSE fv

RECURSIVE VisitsUpTo(_, _)
\* floorVisits after the callback ran on the first n trajectory entries
VisitsUpTo(traj, n) ==
    IF n = 0 THEN InitialFloorVisits
    ELSE CountVisit(VisitsUpTo(traj, n - 1), traj, n)

getVerticalHeatmap(d) == VisitsUpTo(d.trajectory, Len(d.trajectory))

\* ----------------------------------------------------------------- getPath

\* the seconds to the next entry truncated instead of rounded
PathDuration_Truncated(ms) == ms \div 1000

\* Math.round applied to the seconds to the next entry
PathDuration(ms) == RoundHalfUp(ms, 1000)

\* toLocaleTimeString depends on the host locale: kept as the formatted timestamp
LocaleTime(t) == [k |-> "localeTime", v |-> t]

getPath(d) ==
    LET traj == d.trajectory
    IN  [index \in 1..Len(traj) |->
            [ order     |-> index,
              floor     |-> traj[index].floor,
              floorName |-> getFloorName(traj[index].floor),
              time      |-> LocaleTime(traj[index].timestamp),
              duration  |-> IF index < Len(traj)
                            THEN PathDuration(traj[index + 1].timestamp
                                              - traj[index].timestamp)
                            ELSE 0 ]]

\* ----------------------------------------------------- getWorkflowAnalysis

RECURSIVE FilterPositive(_, _)
\* Object.values(fv) up to key n (ascending keys), filtered by duration > 0
FilterPositive(fv, n) ==
    IF n < 0 THEN <<>>
    ELSE LET before == FilterPositive(fv, n - 1)
         IN  IF fv[n].duration.n > 0 THEN Append(before, fv[n]) ELSE before

\* the comparator written the other way round: a.duration - b.duration
GoesAfter_Ascending(a, b) == a.duration.n - b.duration.n > 0

\* the comparator (a, b) => b.duration - a.duration says a goes after b
GoesAfter(a, b) == b.duration.n - a.duration.n > 0

RECURSIVE InsertSorted(_, _)
\* e put into the sorted sequence s behind every element it does not precede
InsertSorted(s, e) ==
    IF Len(s) = 0 THEN <<e>>
    ELSE IF GoesAfter(s[Len(s)], e)
         THEN Append(InsertSorted(SubSeq(s, 1, Len(s) - 1), e), s[Len(s)])
         ELSE Append(s, e)

RECURSIVE SortUpTo(_, _)
\* Array.prototype.sort (stable) on the first n elements of s
SortUpTo(s, n) ==
    IF n = 0 THEN <<>> ELSE InsertSorted(SortUpTo(s, n - 1), s[n])

getWorkflowAnalysis(d) ==
    LET kept == FilterPositive(getVerticalHeatmap(d), TopFloor)
    IN  SortUpTo(kept, Len(kept))

\* -------------------------------------------------------------- getSummary

getSummary(d) ==
    LET traj == d.trajectory
    IN  [ totalPoints   |-> Len(d.points),
          totalFloors   |-> Len(traj),
          startFloor    |-> IF Len(traj) = 0 THEN Num(0) ELSE OrZero(traj[1].floor),
          endFloor      |-> IF Len(traj) = 0 THEN Num(0) ELSE OrZero(traj[Len(traj)].floor),
          floorsVisited |-> Cardinality({traj[i].floor : i \in 1..Len(traj)}),
          duration      |-> d.duration ]

\* --------------------------------------------------------- getFloorHeatmap

\* 1.5 metres
CAR_WIDTH == [k |-> "rat", n |-> 15, d |-> 10]
CAR_DEPTH == [k |-> "rat", n |-> 15, d |-> 10]

RECURSIVE SelectIndices_FromGround(_, _, _)
\* the filter running detectFloor against floor 0 instead of the present floor
SelectIndices_FromGround(d, floor, n) ==
    IF n = 0 THEN <<>>
    ELSE LET before == SelectIndices_FromGround(d, floor, n - 1)
             detectedFloor == detectFloor([d EXCEPT !.currentFloor = Num(0)], d.points[n].z)
         IN  IF ~StrictNeq(detectedFloor, floor) THEN Append(before, n) ELSE before

RECURSIVE SelectIndices(_, _, _)
\* the indices up to n of the points that the filter callback keeps, in order
SelectIndices(d, floor, n) ==
    IF n = 0 THEN <<>>
    ELSE LET before == SelectIndices(d, floor, n - 1)
             detectedFloor == detectFloor(d, d.points[n].z)
         IN  IF ~StrictNeq(detectedFloor, floor) THEN Append(before, n) ELSE before

MaxInt(S) == CHOOSE m \in S : \A n \in S : n <= m

\* (a / maxAccel) * (W / 2) + (W / 2); 0 / 0 is NaN
Normalized(a, maxAccel, W) ==
    IF maxAccel = 0
    THEN (IF a = 0 THEN [k |-> "NaN", n |-> 0, d |-> 1]
                   ELSE [k |-> "Infinity", n |-> a, d |-> 1])
    ELSE [k |-> "rat", n |-> a * W.n + maxAccel * W.n, d |-> 2 * W.d * maxAccel]

\* Math.min(magnitude / 2, 1)
Intensity(magnitude) ==
    IF magnitude.k = "NaN" THEN magnitude
    ELSE IF magnitude.v >= (2 * magnitude.d) * (2 * magnitude.d)
         THEN [k |-> "sqrt", v |-> 1, d |-> 1]
         ELSE [magnitude EXCEPT !.d = 2 * @]

getFloorHeatmap(d, floor) ==
    LET idx == SelectIndices(d, floor, Len(d.points))
        floorPoints == [j \in 1..Len(idx) |-> d.points[idx[j]]]
    IN  IF Len(floorPoints) = 0 THEN <<>>
        ELSE LET maxAccel == MaxInt({MaxInt({AbsInt(floorPoints[j].x.v),
                                             AbsInt(floorPoints[j].y.v)})
                                        : j \in 1..Len(floorPoints)})
             IN  [j \in 1..Len(floorPoints) |->
                    [ x           |-> floorPoints[j].x,
                      y           |-> floorPoints[j].y,
                      z           |-> floorPoints[j].z,
                      timestamp   |-> floorPoints[j].timestamp,
                      magnitude   |-> floorPoints[j].magnitude,
                      normalizedX |-> Normalized(floorPoints[j].x.v, maxAccel, CAR_WIDTH),
                      normalizedY |-> Normalized(floorPoints[j].y.v, maxAccel, CAR_DEPTH),
                      intensity   |-> Intensity(floorPoints[j].magnitude) ]]

\* --------------------------------------------------------------- accessors

\* detectFloor that stores the floor it detected, getPath that writes the
\* computed duration back into the trajectory entries
Accessed_StoresResult(d, c) ==
    IF c.op = "detectFloor"
    THEN [d EXCEPT !.currentFloor = detectFloor(d, c.z)]
    ELSE IF c.op = "getPath"
         THEN [d EXCEPT !.trajectory =
                 [i \in 1..Len(@) |-> [@[i] EXCEPT !.duration = getPath(d)[i].duration]]]
         ELSE d

\* the session after the accessor call c ran: none of them assigns to this.data
Accessed(d, c) == d

\* ------------------------------------------------------------------ inputs

\* (x, y) pairs: both zero; x missing and y non-zero
XYs == {<<Num(0), Num(0)>>, <<Undef, Num(-20)>>}
Zs == {Undef, Num(0), Num(30), Num(-30), Num(750)}
Ts == {1000, 1500, 3000}

\* the samples fed to addPoint: every z and timestamp with x = y = 0, and the
\* sample with a missing x at rest and one floor up
Sampled(xy, z) == xy[1] = Undef => z \in {Num(0), Num(30)}

\* z arguments of detectFloor and floor arguments of getFloorHeatmap
QueryZs == {Undef, Num(0), Num(30)}
QueryFloors == {Num(0), Num(1), Num(99)}

\* a call: its name and its raw arguments (getFloorHeatmap's floor is kept in x)
NoCall == [op |-> "none", x |-> Undef, y |-> Undef, z |-> Undef, t |-> 0]

\* ----------------------------------------------------------------- actions

Init ==
    /\ data = EmptyData
    /\ calls = 0
    /\ last = NoCall
    /\ ret = Undef

AddPoint ==
    /\ Len(data.points) < MaxPoints
    /\ \E xy \in XYs, z \in Zs, t \in Ts :
         /\ Sampled(xy, z)
         /\ data' = addPoint(data, xy[1], xy[2], z, t)
         /\ last' = [op |-> "addPoint", x |-> xy[1], y |-> xy[2], z |-> z, t |-> t]
         /\ ret' = MakePoint(xy[1], xy[2], z, t)
    /\ calls' = calls + 1

Reset ==
    /\ data' = reset(data)
    /\ calls' = 0
    /\ last' = [NoCall EXCEPT !.op = "reset"]
    /\ ret' = Undef

DetectFloor ==
    /\ Len(data.points) <= MaxQueried
    /\ \E z \in QueryZs :
         /\ ret' = detectFloor(data, z)
         /\ last' = [NoCall EXCEPT !.op = "detectFloor", !.z = z]
    /\ data' = Accessed(data, last')
    /\ UNCHANGED calls

GetFloorHeatmap ==
    /\ Len(data.points) <= MaxQueried
    /\ \E floor \in QueryFloors :
         /\ ret' = getFloorHeatmap(data, floor)
         /\ last' = [NoCall EXCEPT !.op = "getFloorHeatmap", !.x = floor]
    /\ data' = Accessed(data, last')
    /\ UNCHANGED calls

GetVerticalHeatmap ==
    /\ Len(data.points) <= MaxQueried
    /\ ret' = getVerticalHeatmap(data)
    /\ last' = [NoCall EXCEPT !.op = "getVerticalHeatmap"]
    /\ data' = Accessed(data, last')
    /\ UNCHANGED calls

GetWorkflowAnalysis ==
    /\ Len(data.points) <= MaxQueried
    /\ ret' = getWorkflowAnalysis(data)
    /\ last' = [NoCall EXCEPT !.op = "getWorkflowAnalysis"]
    /\ data' = Accessed(data, last')
    /\ UNCHANGED calls

GetPath ==
    /\ Len(data.points) <= MaxQueried
    /\ ret' = getPath(data)
    /\ last' = [NoCall EXCEPT !.op = "getPath"]
    /\ data' = Accessed(data, last')
    /\ UNCHANGED calls

GetSummary ==
    /\ Len(data.points) <= MaxQueried
    /\ ret' = getSummary(data)
    /\ last' = [NoCall EXCEPT !.op = "getSummary"]
    /\ data' = Accessed(data, last')
    /\ UNCHANGED calls

Next ==
    \/ AddPoint
    \/ Reset
    \/ DetectFloor
    \/ GetFloorHeatmap
    \/ GetVerticalHeatmap
    \/ GetWorkflowAnalysis
    \/ GetPath
    \/ GetSummary

Spec == Init /\ [][Next]_vars

\* ================================================================== claims

trajectory == data.trajectory
currentFloor == data.currentFloor
points == data.points

\* the step just taken was addPoint (last' holds its raw arguments)
AddPointStep == calls' = calls + 1 /\ last'.op = "addPoint"

\* a floor of the building: an integer in [0, 12]
InRange(f) == IsNum(f) /\ f.v >= 0 /\ f.v <= 12

\* z values handed to detectFloor in the claims about it (tenths of a m/s^2)
ZProbe ==
    {Undef} \cup {Num(n) : n \in {-750, -150, -91, -90, -89, -31, -30, -29, -6, -5,
                                  -4, -1, 0, 1, 4, 5, 6, 29, 30, 31, 89, 90, 91,
                                  149, 150, 151, 690, 750}}

\* ---- C1
\* C1: in every reachable state no two adjacent trajectory entries carry the
\* same floor value.
C1_NoAdjacentEqualFloors ==
    \A i \in 1..(Len(trajectory) - 1) :
        trajectory[i].floor # trajectory[i + 1].floor

\* ---- C2
\* C2: currentFloor is the floor of the last trajectory entry when the
\* trajectory is non-empty, and 0 when it is empty.
C2_CurrentFloorIsLastEntry ==
    IF Len(trajectory) = 0
    THEN currentFloor = Num(0)
    ELSE currentFloor = trajectory[Len(trajectory)].floor

C2_Witness ==
    /\ Len(trajectory) >= 2
    /\ Len(points) > Len(trajectory)
    /\ IsNum(currentFloor)
    /\ currentFloor.v > 0

\* ---- C3
\* C3: detectFloor(z) is an integer in [0, 12] for every input z, and so are
\* currentFloor and the floor of every trajectory entry.
C3_FloorsInRange ==
    /\ \A z \in ZProbe : InRange(detectFloor(data, z))
    /\ InRange(currentFloor)
    /\ \A i \in 1..Len(trajectory) : InRange(trajectory[i].floor)

\* ---- C4
\* 0 substituted for a missing argument
ZeroIfMissing(a) == IF a.k = "undefined" THEN Num(0) ELSE a

\* C4: addPoint with a missing x, y or z leaves the session in the state that
\* addPoint produces with 0 in place of each missing component (same stored
\* sample, magnitude included; same currentFloor and trajectory).
C4_MissingActsAsZero ==
    [][AddPointStep =>
          data' = addPoint(data, ZeroIfMissing(last'.x), ZeroIfMissing(last'.y),
                           ZeroIfMissing(last'.z), last'.t)]_vars

\* ---- C5
\* milliseconds from trajectory entry i to the next one, 0 for the last entry
MsToNext(i) ==
    IF i < Len(trajectory)
    THEN trajectory[i + 1].timestamp - trajectory[i].timestamp
    ELSE 0

\* floor f (a number) occurs once in the trajectory
OccursOnce(f) == Cardinality({j \in 1..Len(trajectory) : trajectory[j].floor = f}) = 1

\* C5 as stated: getPath()[i].duration is exactly MsToNext(i)/1000 seconds, the
\* value getVerticalHeatmap accumulates for that entry.
C5_PathDurationExact ==
    \A i \in 1..Len(trajectory) :
        /\ 1000 * getPath(data)[i].duration = MsToNext(i)
        /\ (InRange(trajectory[i].floor) /\ OccursOnce(trajectory[i].floor))
              => 1000 * getPath(data)[i].duration
                    = getVerticalHeatmap(data)[trajectory[i].floor.v].duration.n

\* s is sec (a fraction n/d of a second) rounded to the nearest whole second,
\* halves upwards: s - 1/2 <= n/d < s + 1/2
IsRounded(s, sec) ==
    /\ 2 * s * sec.d - sec.d <= 2 * sec.n
    /\ 2 * sec.n < 2 * s * sec.d + sec.d

\* C5 amended: getPath()[i].duration is MsToNext(i)/1000 rounded to the nearest
\* whole second (halves up), 0 for the last entry; for a floor visited once it
\* is the rounding of the duration getVerticalHeatmap reports for that floor.
C5_PathDurationRounded ==
    \A i \in 1..Len(trajectory) :
        /\ IsRounded(getPath(data)[i].duration, [n |-> MsToNext(i), d |-> 1000])
        /\ i = Len(trajectory) => getPath(data)[i].duration = 0
        /\ (InRange(trajectory[i].floor) /\ OccursOnce(trajectory[i].floor))
              => IsRounded(getPath(data)[i].duration,
                           getVerticalHeatmap(data)[trajectory[i].floor.v].duration)

C5_Witness ==
    /\ Len(trajectory) = 3
    /\ MsToNext(1) = 500
    /\ MsToNext(2) = 1500
    /\ getPath(data)[1].duration = 1
    /\ getPath(data)[2].duration = 2
    /\ InRange(trajectory[1].floor) /\ OccursOnce(trajectory[1].floor)

\* ---- C6
\* r is CAR_WIDTH / 2
IsCarCentre(r) == r.k = "rat" /\ r.n * (2 * CAR_WIDTH.d) = CAR_WIDTH.n * r.d

\* C6: when every point matched by getFloorHeatmap(floor) has x = 0 and y = 0,
\* each returned point has normalizedX = normalizedY = CAR_WIDTH/2.
C6_CentreWhenNoHorizontalAccel ==
    \A f \in 0..12 :
        LET hm == getFloorHeatmap(data, Num(f))
        IN  (\A j \in 1..Len(hm) : hm[j].x = Num(0) /\ hm[j].y = Num(0))
               => \A j \in 1..Len(hm) :
                     IsCarCentre(hm[j].normalizedX) /\ IsCarCentre(hm[j].normalizedY)

\* ---- C7
\* C7: points is an append-only log: every addPoint call appends exactly one
\* sample (carrying the call's timestamp) at the end and leaves the earlier
\* samples as they were, and getSummary().totalPoints is the number of addPoint
\* calls since construction or the last reset.
C7_PointsAppendOnly ==
    /\ getSummary(data).totalPoints = calls
    /\ [][/\ AddPointStep =>
                /\ Len(data'.points) = Len(data.points) + 1
                /\ SubSeq(data'.points, 1, Len(data.points)) = data.points
                /\ data'.points[Len(data'.points)].timestamp = last'.t
          /\ getSummary(data').totalPoints = calls']_vars

C7_Witness ==
    /\ calls = 3
    /\ getSummary(data).totalPoints = 3
    /\ Len(trajectory) = 1

\* ---- C8
\* round((|z| * 0.5) / 3) with halves rounded up, z in tenths of a m/s^2:
\* the integer k with k - 1/2 <= |z|/60 < k + 1/2
FloorsMoved(z) ==
    CHOOSE k \in 0..20 : 60 * k - 30 <= AbsInt(z) /\ AbsInt(z) < 60 * k + 30

C9_SmallZChangesNothing ==
    /\ \A z \in {p \in ZProbe : IsNum(p) /\ AbsInt(p.v) < 5} :
          detectFloor(data, z) = currentFloor
    /\ [][(AddPointStep /\ IsNum(last'.z) /\ AbsInt(last'.z.v) < 5) =>
             /\ data'.currentFloor = data.currentFloor
             /\ data'.trajectory = data.trajectory
             /\ Len(data'.points) = Len(data.points) + 1]_vars

\* ---- C10
\* a <= b on JavaScript numbers: false as soon as one side is NaN
JSLe(a, b) == IsNum(a) /\ IsNum(b) /\ a.v <= b.v

\* C10: for a fixed currentFloor and z1 <= z2, both >= 0.5,
\* detectFloor(z1) <= detectFloor(z2) <= 12.
C10_MonotoneInZ ==
    \A z1, z2 \in {p \in ZProbe : IsNum(p) /\ p.v >= 5} :
        z1.v <= z2.v =>
            /\ JSLe(detectFloor(data, z1), detectFloor(data, z2))
            /\ JSLe(detectFloor(data, z2), Num(12))

\* ---- C11
AccessorOps ==
    {"detectFloor", "getFloorHeatmap", "getVerticalHeatmap", "getWorkflowAnalysis",
     "getPath", "getSummary"}

\* what the call recorded in c returns on session d
ResultOf(d, c) ==
    CASE c.op = "detectFloor" -> detectFloor(d, c.z)
      [] c.op = "getFloorHeatmap" -> getFloorHeatmap(d, c.x)
      [] c.op = "getVerticalHeatmap" -> getVerticalHeatmap(d)
      [] c.op = "getWorkflowAnalysis" -> getWorkflowAnalysis(d)
      [] c.op = "getPath" -> getPath(d)
      [] c.op = "getSummary" -> getSummary(d)

\* C11: every accessor leaves points, trajectory, currentFloor and the session
\* bookkeeping fields unchanged, so the same accessor called again with no
\* addPoint or reset in between returns the result it returned before.
C11_AccessorsReadOnly ==
    [][last'.op \in AccessorOps =>
          /\ data' = data
          /\ calls' = calls
          /\ ResultOf(data', last') = ret'
          /\ (last.op \in AccessorOps => ResultOf(data', last) = ret)]_vars

C11_Witness ==
    /\ last.op = "getFloorHeatmap"
    /\ last.x = Num(0)
    /\ Len(points) = 1
    /\ Len(ret) = 1

\* ---- C12
\* C12: after reset(), points, trajectory, currentFloor, duration, startTime
\* and endTime are those of a freshly constructed engine, and so is
\* getSummary().
C12_ResetIsFresh ==
    /\ [][last'.op = "reset" =>
             /\ data' = EmptyData
             /\ getSummary(data') = getSummary(EmptyData)]_vars
    /\ [][(last.op = "reset" /\ AddPointStep) =>
             data' = addPoint(EmptyData, last'.x, last'.y, last'.z, last'.t)]_vars

C12_Witness ==
    /\ last.op = "reset"
    /\ data = EmptyData
    /\ getSummary(data).totalPoints = 0

\* ---- C13
RECURSIVE SumMsToNext(_)
\* the milliseconds to the next entry, summed over the entries with index in S
SumMsToNext(S) ==
    IF S = {} THEN 0
    ELSE LET i == CHOOSE j \in S : TRUE
         IN  MsToNext(i) + SumMsToNext(S \ {i})

\* the indices of the trajectory entries of floor f
VisitsOf(f) == {i \in 1..Len(trajectory) : trajectory[i].floor = Num(f)}

\* C13: for every floor f in 0..12, getVerticalHeatmap()[f].visits is the number
\* of trajectory entries of floor f, lastVisit the timestamp of the last of them
\* (absent if none) and duration the sum of (next.timestamp - timestamp)/1000
\* over those that have a successor; the final entry adds nothing.
C13_VerticalHeatmapTotals ==
    \A f \in 0..12 :
        LET stats == getVerticalHeatmap(data)[f]
            V == VisitsOf(f)
        IN  /\ stats.visits = Cardinality(V)
            /\ stats.lastVisit =
                  (IF V = {} THEN Null
                   ELSE Num(trajectory[CHOOSE i \in V : \A j \in V : j <= i].timestamp))
            /\ stats.duration.d = 1000
            /\ stats.duration.n = SumMsToNext(V \ {Len(trajectory)})

C13_Witness ==
    /\ Len(trajectory) = 3
    /\ trajectory[1].floor = Num(1)
    /\ trajectory[2].floor = Num(0)
    /\ trajectory[3].floor = Num(1)
    /\ getVerticalHeatmap(data)[1].visits = 2
    /\ getVerticalHeatmap(data)[1].duration.n = 500
    /\ getVerticalHeatmap(data)[0].duration.n = 1500

\* ---- C14
\* the floor detected for z differs from the floor the car is on
FloorChanges(d, z) == detectFloor(d, z) # d.currentFloor

\* C14: getPath() has exactly one step per detected floor change (one per
\* addPoint call whose detected floor differed from currentFloor before the
\* call), numbered 1..n in chronological order.
C14_OneStepPerFloorChange ==
    /\ Len(getPath(data)) = 0
    /\ [][/\ AddPointStep =>
                Len(getPath(data')) =
                   Len(getPath(data)) + (IF FloorChanges(data, last'.z) THEN 1 ELSE 0)
          /\ last'.op = "reset" => Len(getPath(data')) = 0
          /\ \A i \in 1..Len(getPath(data')) :
                /\ getPath(data')[i].order = i
                /\ getPath(data')[i].floor = data'.trajectory[i].floor]_vars

\* ---- C15
\* the indices of the recorded points that detectFloor, run on the session as
\* it is now, puts on floor f
OnFloorNow(f) == {i \in 1..Len(points) : detectFloor(data, points[i].z) = f}

\* C15: getFloorHeatmap(floor) returns, in insertion order, exactly the recorded
\* points p for which detectFloor(p.z), evaluated against the present
\* currentFloor, equals floor; the empty sequence when there is none.
C15_FloorHeatmapIsFilter ==
    \A f \in {Num(n) : n \in 0..12} \cup {Num(99)} :
        LET hm == getFloorHeatmap(data, f)
            M == OnFloorNow(f)
        IN  /\ Len(hm) = Cardinality(M)
            /\ \A i \in M :
                  LET j == Cardinality({m \in M : m <= i})
                  IN  /\ hm[j].x = points[i].x
                      /\ hm[j].y = points[i].y
                      /\ hm[j].z = points[i].z
                      /\ hm[j].timestamp = points[i].timestamp
                      /\ hm[j].magnitude = points[i].magnitude

\* a point recorded on another floor than the one it is reported on now
C15_Witness ==
    /\ Len(points) = 3
    /\ Len(trajectory) = 1
    /\ trajectory[1].timestamp = points[3].timestamp
    /\ currentFloor = Num(1)
    /\ Len(getFloorHeatmap(data, Num(1))) = 2
    /\ Len(getFloorHeatmap(data, Num(2))) = 1
    /\ getFloorHeatmap(data, Num(0)) = <<>>

\* ---- C16
\* C16: getVerticalHeatmap() returns exactly 13 entries, one for each floor
\* 0..12, each carrying its own floor number and the name getFloorName gives
\* ("Car Top (Machine Room)" for 0, "Floor n" for 1..12).
C16_ThirteenFloors ==
    LET hm == getVerticalHeatmap(data)
    IN  /\ DOMAIN hm = 0..12
        /\ Cardinality(DOMAIN hm) = 13
        /\ \A f \in DOMAIN hm :
              /\ hm[f].floor = Num(f)
              /\ hm[f].floorName = getFloorName(Num(f))
              /\ hm[f].floorName # "Unknown"
        /\ hm[0].floorName = "Car Top (Machine Room)"
        /\ hm[12].floorName = "Floor 12"

C16_Witness ==
    /\ Len(trajectory) = 3
    /\ currentFloor = Num(12)
    /\ getVerticalHeatmap(data)[12].visits = 1
    /\ getVerticalHeatmap(data)[5].visits = 0

\* ---- C17
\* C17: getWorkflowAnalysis() returns exactly the getVerticalHeatmap() entries
\* whose duration is greater than 0, each once, with durations non-increasing
\* from first to last; floors of zero duration are absent.
C17_WorkflowSortedPositive ==
    LET wa == getWorkflowAnalysis(data)
        hm == getVerticalHeatmap(data)
    IN  /\ \A i \in 1..Len(wa) :
              /\ wa[i].floor.v \in 0..12
              /\ wa[i] = hm[wa[i].floor.v]
              /\ wa[i].duration.n > 0
        /\ \A f \in 0..12 :
              Cardinality({i \in 1..Len(wa) : wa[i].floor = Num(f)})
                 = (IF hm[f].duration.n > 0 THEN 1 ELSE 0)
        /\ \A i \in 1..(Len(wa) - 1) : wa[i].duration.n >= wa[i + 1].duration.n

\* two floors ranked against their floor order; the final floor is absent
C17_Witness ==
    LET wa == getWorkflowAnalysis(data)
    IN  /\ Len(trajectory) = 3
        /\ Len(wa) = 2
        /\ wa[1].floor.v > wa[2].floor.v
        /\ wa[1].duration.n > wa[2].duration.n
        /\ \A i \in 1..2 : wa[i].floor # trajectory[3].floor

Timestamps(s) == [i \in 1..Len(s) |-> s[i].timestamp]

RECURSIVE IsSubsequence(_, _)
\* a can be obtained from b by deleting elements
IsSubsequence(a, b) ==
    IF Len(a) = 0 THEN TRUE
    ELSE IF Len(b) = 0 THEN FALSE
    ELSE IF a[Len(a)] = b[Len(b)]
         THEN IsSubsequence(SubSeq(a, 1, Len(a) - 1), SubSeq(b, 1, Len(b) - 1))
         ELSE IsSubsequence(a, SubSeq(b, 1, Len(b) - 1))

\* C19: trajectory is an append-only log: each addPoint call appends at most one
\* entry and alters no earlier one; it appends exactly when the detected floor
\* differs from currentFloor before the call; the entry carries the new
\* currentFloor and the timestamp of the call's sample, so the trajectory
\* timestamps are a subsequence of the points' timestamps.
C19_TrajectoryAppendOnly ==
    [][AddPointStep =>
          /\ IF FloorChanges(data, last'.z)
             THEN /\ Len(data'.trajectory) = Len(data.trajectory) + 1
                  /\ SubSeq(data'.trajectory, 1, Len(data.trajectory)) = data.trajectory
                  /\ data'.trajectory[Len(data'.trajectory)].floor = data'.currentFloor
                  /\ data'.trajectory[Len(data'.trajectory)].timestamp = last'.t
             ELSE data'.trajectory = data.trajectory
          /\ IsSubsequence(Timestamps(data'.trajectory), Timestamps(data'.points))]_vars

\* ---- C20
\* an acceleration (tenths of a m/s^2) that moves the car from floor a to b:
\* 6 m/s^2 for each floor
JumpZ(a, b) == Num(60 * (b - a))

RECURSIVE HeatmapLengthsUpTo(_)
\* Len(getFloorHeatmap(0)) + .. + Len(getFloorHeatmap(f))
HeatmapLengthsUpTo(f) ==
    IF f < 0 THEN 0
    ELSE HeatmapLengthsUpTo(f - 1) + Len(getFloorHeatmap(data, Num(f)))

\* the floors 0..12 whose heat map returns the i-th recorded point
FloorsReturning(i) ==
    {f \in 0..TopFloor :
        \E j \in 1..Len(SelectIndices(data, Num(f), Len(points))) :
            SelectIndices(data, Num(f), Len(points))[j] = i}

\* C21: in every reachable state each recorded point is returned by
\* getFloorHeatmap(f) for exactly one floor f in 0..12, and the lengths of
\* getFloorHeatmap(0) .. getFloorHeatmap(12) sum to getSummary().totalPoints.
C21_HeatmapsPartitionPoints ==
    /\ \A i \in 1..Len(points) : Cardinality(FloorsReturning(i)) = 1
    /\ HeatmapLengthsUpTo(TopFloor) = getSummary(data).totalPoints


====
